---- MODULE Spec2Model ----
(***************************************************************************)
(* WaveSync: the SRT codec (lib/srt-parser), the sync correction of the    *)
(* waveform player component, and the batch loop of the translation       *)
(* service (lib/translation-service).                                     *)
(*                                                                         *)
(* Representation.  A JavaScript string is a sequence of one-character     *)
(* strings, so that the regular expressions, trim, split and join of the   *)
(* source are computed character by character.  Times are integers in      *)
(* milliseconds; the player keeps its times in seconds (ms / 1000), and    *)
(* the model keeps the same quantities multiplied by 1000.  A subtitle id  *)
(* is a JavaScript Number with an integer value: it is held as the decimal *)
(* numeral of that value, which is exact for every id line the model       *)
(* reads (values below 2^53, and 10^21).                                   *)
(***************************************************************************)
EXTENDS Integers, Sequences, FiniteSets, TLC

VARIABLES
    tsPc, tsIn, tsText, tsBack, tsAgain,
    srtPc, content, parsed, formatted, reparsed,
    mode, subtitles, syncPoints, correctedSubtitles, nextSyncId,
    trPc, settings, trLines, trIndex, batch, attempt, calls, response,
    translations

vars == <<tsPc, tsIn, tsText, tsBack, tsAgain,
          srtPc, content, parsed, formatted, reparsed,
          mode, subtitles, syncPoints, correctedSubtitles, nextSyncId,
          trPc, settings, trLines, trIndex, batch, attempt, calls, response,
          translations>>

tsVars == <<tsPc, tsIn, tsText, tsBack, tsAgain>>
srtVars == <<srtPc, content, parsed, formatted, reparsed>>
playerVars == <<mode, subtitles, syncPoints, correctedSubtitles, nextSyncId>>
trVars == <<trPc, settings, trLines, trIndex, batch, attempt, calls, response,
            translations>>

(***************************************************************************)
(* Characters and strings                                                  *)
(***************************************************************************)
NL == "\n"

DigitChars == <<"0", "1", "2", "3", "4", "5", "6", "7", "8", "9">>

IsDigit(c) == \E i \in 1..10 : DigitChars[i] = c

DigitValue(c) == (CHOOSE i \in 1..10 : DigitChars[i] = c) - 1

\* The characters String.prototype.trim removes that occur in the inputs.
IsWhitespace(c) == c \in {" ", "\t", "\r", "\n"}

AllDigits(s) == \A i \in 1..Len(s) : IsDigit(s[i])

RECURSIVE TrimStart(_)
TrimStart(s) ==
    IF s # <<>> /\ IsWhitespace(Head(s)) THEN TrimStart(Tail(s)) ELSE s

RECURSIVE TrimEnd(_)
TrimEnd(s) ==
    IF s # <<>> /\ IsWhitespace(s[Len(s)])
    THEN TrimEnd(SubSeq(s, 1, Len(s) - 1))
    ELSE s

\* String.prototype.trim
Trim(s) == TrimEnd(TrimStart(s))

\* Index of the first sep in s, 0 when there is none.
RECURSIVE IndexOfFrom(_, _, _)
IndexOfFrom(s, sep, i) ==
    IF i > Len(s) THEN 0
    ELSE IF s[i] = sep THEN i
    ELSE IndexOfFrom(s, sep, i + 1)

\* String.prototype.split(sep) for a one-character separator: never empty.
RECURSIVE Split(_, _)
Split(s, sep) ==
    LET i == IndexOfFrom(s, sep, 1)
    IN  IF i = 0 THEN <<s>>
        ELSE <<SubSeq(s, 1, i - 1)>> \o Split(SubSeq(s, i + 1, Len(s)), sep)

\* Array.prototype.join(sep) over strings.
RECURSIVE Join(_, _)
Join(parts, sep) ==
    IF parts = <<>> THEN <<>>
    ELSE IF Len(parts) = 1 THEN parts[1]
    ELSE parts[1] \o <<sep>> \o Join(Tail(parts), sep)

\* String.prototype.padStart(width, '0')
RECURSIVE PadStart(_, _)
PadStart(s, width) ==
    IF Len(s) >= width THEN s ELSE PadStart(<<"0">> \o s, width)

\* Number.prototype.toString for a non-negative integer below 10^21.
RECURSIVE NatToString(_)
NatToString(n) ==
    IF n < 10 THEN <<DigitChars[n + 1]>>
    ELSE NatToString(n \div 10) \o <<DigitChars[(n % 10) + 1]>>

\* Number.prototype.toString for an integer of magnitude below 10^21
\* (-0 prints as "0").
IntToString(n) ==
    IF n < 0 THEN <<"-">> \o NatToString(-n) ELSE NatToString(n)

\* parseInt of a string of decimal digits.
RECURSIVE DigitsToNat(_)
DigitsToNat(s) ==
    IF s = <<>> THEN 0
    ELSE 10 * DigitsToNat(SubSeq(s, 1, Len(s) - 1)) + DigitValue(s[Len(s)])

\* The JavaScript remainder a % b for b > 0: the sign of the dividend.
JsRem(a, b) == IF a >= 0 THEN a % b ELSE -((-a) % b)

(***************************************************************************)
(* Timestamps                                                              *)
(***************************************************************************)
MsPerHour == 3600000
MsPerMinute == 60000
MsPerSecond == 1000

\* The pattern with [.,] before the milliseconds, as the seek field reads it.
MatchesDotOrComma(s) ==
    /\ Len(s) = 12
    /\ \A i \in {1, 2, 4, 5, 7, 8, 10, 11, 12} : IsDigit(s[i])
    /\ s[3] = ":"
    /\ s[6] = ":"
    /\ s[9] \in {",", "."}

\* /^(\d{2}):(\d{2}):(\d{2}),(\d{3})$/
MatchesTimestampPattern(s) ==
    /\ Len(s) = 12
    /\ \A i \in {1, 2, 4, 5, 7, 8, 10, 11, 12} : IsDigit(s[i])
    /\ s[3] = ":"
    /\ s[6] = ":"
    /\ s[9] = ","

\* new SRTParseError(message, line)
SRTParseError(text, arg, line) ==
    [ok |-> FALSE, name |-> "SRTParseError", text |-> text, arg |-> arg,
     line |-> line]

NoLine == 0

\* parseTimestamp with the minutes weighed as seconds.
parseTimestampMinutesAsSeconds(timestamp) ==
    IF ~MatchesTimestampPattern(timestamp)
    THEN SRTParseError("Invalid timestamp format: ", timestamp, NoLine)
    ELSE [ok |-> TRUE,
          ms |-> DigitsToNat(SubSeq(timestamp, 1, 2)) * MsPerHour
                 + DigitsToNat(SubSeq(timestamp, 4, 5)) * MsPerSecond
                 + DigitsToNat(SubSeq(timestamp, 7, 8)) * MsPerSecond
                 + DigitsToNat(SubSeq(timestamp, 10, 12))]

parseTimestamp(timestamp) ==
    IF ~MatchesTimestampPattern(timestamp)
    THEN SRTParseError("Invalid timestamp format: ", timestamp, NoLine)
    ELSE [ok |-> TRUE,
          ms |-> DigitsToNat(SubSeq(timestamp, 1, 2)) * MsPerHour
                 + DigitsToNat(SubSeq(timestamp, 4, 5)) * MsPerMinute
                 + DigitsToNat(SubSeq(timestamp, 7, 8)) * MsPerSecond
                 + DigitsToNat(SubSeq(timestamp, 10, 12))]

\* pad(n, width) of formatTimestamp
pad(n, width) == PadStart(IntToString(n), width)

\* formatTimestamp with the minutes taken of the total, not of the hour.
formatTimestampTotalMinutes(ms) ==
    LET hours == ms \div MsPerHour
        minutes == ms \div MsPerMinute
        seconds == JsRem(ms, MsPerMinute) \div MsPerSecond
        milliseconds == JsRem(ms, MsPerSecond)
    IN  pad(hours, 2) \o <<":">> \o pad(minutes, 2) \o <<":">>
        \o pad(seconds, 2) \o <<",">> \o pad(milliseconds, 3)

\* formatTimestamp for an integer number of milliseconds
formatTimestamp(ms) ==
    LET hours == ms \div MsPerHour
        minutes == JsRem(ms, MsPerHour) \div MsPerMinute
        seconds == JsRem(ms, MsPerMinute) \div MsPerSecond
        milliseconds == JsRem(ms, MsPerSecond)
    IN  pad(hours, 2) \o <<":">> \o pad(minutes, 2) \o <<":">>
        \o pad(seconds, 2) \o <<",">> \o pad(milliseconds, 3)

(***************************************************************************)
(* The timestamp codec applied to sample inputs                            *)
(***************************************************************************)
\* A value not computed yet.
NotYet == [pending |-> TRUE]

\* Largest hours field of the sampled millisecond inputs.
MaxHours == 100

SampleHours == {0, 1, 10, 99} \cup (100..MaxHours)

SampleMs ==
    {h * MsPerHour + m * MsPerMinute + sec * MsPerSecond + k :
        h \in SampleHours, m \in {0, 59}, sec \in {0, 59}, k \in {0, 1, 998, 999}}

SampleTimestampTexts ==
    { <<"0","1",":","2","3",":","4","5",",","6","7","8">>,
      <<"1",":","2","3",":","4","5",",","6","7","8">>,
      <<"0","1",":","2","3",":","4","5",".","6","7","8">>,
      <<"0","1",":","2","3",":","4","5",",","6","7">>,
      <<"0","1",":","2","3",":","4","5",",","6","7","8"," ">>,
      <<"0","1",":","2","3",":","4","5",",","6","7","8","9">>,
      <<"0","1",":","2","3",",","4","5",":","6","7","8">>,
      <<"0","0",":","9","9",":","9","9",",","9","9","9">>,
      <<"1","0","0",":","0","0",":","0","0",",","0","0","0">>,
      <<"0","a",":","0","0",":","0","0",",","0","0","0">>,
      <<"0","1",":","2","3",":","4","5">>,
      <<>> }

TsIdle ==
    /\ tsPc = "idle"
    /\ tsIn = NotYet
    /\ tsText = <<>>
    /\ tsBack = NotYet
    /\ tsAgain = <<>>

TsInit ==
    /\ \/ /\ tsPc = "format"
          /\ \E m \in SampleMs : tsIn = [kind |-> "ms", ms |-> m]
          /\ tsText = <<>>
       \/ /\ tsPc = "parse"
          /\ \E t \in SampleTimestampTexts :
                 /\ tsIn = [kind |-> "text", text |-> t]
                 /\ tsText = t
    /\ tsBack = NotYet
    /\ tsAgain = <<>>

\* formatTimestamp(m)
FormatStep ==
    /\ tsPc = "format"
    /\ tsText' = formatTimestamp(tsIn.ms)
    /\ tsPc' = "parse"
    /\ UNCHANGED <<tsIn, tsBack, tsAgain, srtVars, playerVars, trVars>>

\* parseTimestamp(text)
ParseStep ==
    /\ tsPc = "parse"
    /\ tsBack' = parseTimestamp(tsText)
    /\ tsPc' = "parsed"
    /\ UNCHANGED <<tsIn, tsText, tsAgain, srtVars, playerVars, trVars>>

\* formatTimestamp(parseTimestamp(text)), when parseTimestamp returned
FormatBackStep ==
    /\ tsPc = "parsed"
    /\ tsBack.ok
    /\ tsAgain' = formatTimestamp(tsBack.ms)
    /\ tsPc' = "done"
    /\ UNCHANGED <<tsIn, tsText, tsBack, srtVars, playerVars, trVars>>

(***************************************************************************)
(* Subtitle ids: parseInt and Number-to-string                             *)
(***************************************************************************)
NaN == <<"N", "a", "N">>

RECURSIVE LeadingDigits(_)
LeadingDigits(s) ==
    IF s # <<>> /\ IsDigit(Head(s))
    THEN <<Head(s)>> \o LeadingDigits(Tail(s))
    ELSE <<>>

RECURSIVE StripLeadingZeros(_)
StripLeadingZeros(s) ==
    IF Len(s) > 1 /\ Head(s) = "0" THEN StripLeadingZeros(Tail(s)) ELSE s

RECURSIVE StripTrailingZeros(_)
StripTrailingZeros(s) ==
    IF Len(s) > 1 /\ s[Len(s)] = "0"
    THEN StripTrailingZeros(SubSeq(s, 1, Len(s) - 1))
    ELSE s

\* parseInt(line) of a trimmed line, radix 10: an optional sign, then the
\* longest run of digits; NaN when there is no digit.  The Number returned
\* is held as its decimal numeral.
parseInt(line) ==
    LET signed == line # <<>> /\ line[1] \in {"-", "+"}
        digits == LeadingDigits(IF signed THEN Tail(line) ELSE line)
        magnitude == StripLeadingZeros(digits)
    IN  IF digits = <<>> THEN NaN
        ELSE IF signed /\ line[1] = "-" /\ magnitude # <<"0">>
             THEN <<"-">> \o magnitude
             ELSE magnitude

isNaN(n) == n = NaN

\* Number of decimal digits from which Number-to-string switches to the
\* exponent notation (values >= 10^21).
ExponentDigits == 22

\* String(id), as Array.prototype.join applies it to the id of an entry:
\* the decimal numeral below 10^21, the exponent notation d[.ddd]e+N from
\* there on.
NumberToString(n) ==
    LET negative == n # <<>> /\ n[1] = "-"
        digits == IF negative THEN Tail(n) ELSE n
        mantissa == StripTrailingZeros(digits)
        sign == IF negative THEN <<"-">> ELSE <<>>
    IN  IF Len(digits) < ExponentDigits THEN n
        ELSE sign \o <<mantissa[1]>>
             \o (IF Len(mantissa) > 1 THEN <<".">> \o Tail(mantissa) ELSE <<>>)
             \o <<"e", "+">> \o NatToString(Len(digits) - 1)

(***************************************************************************)
(* parseSRT and formatSRT                                                  *)
(***************************************************************************)
Arrow == <<" ", "-", "-", ">", " ">>

\* /^(\d{2}:\d{2}:\d{2},\d{3}) --> (\d{2}:\d{2}:\d{2},\d{3})$/
MatchesTimingLine(line) ==
    /\ Len(line) = 29
    /\ MatchesTimestampPattern(SubSeq(line, 1, 12))
    /\ SubSeq(line, 13, 17) = Arrow
    /\ MatchesTimestampPattern(SubSeq(line, 18, 29))

\* currentEntry of parseSRT: null, { id }, or { id, startTime, endTime }
NullEntry == [kind |-> "null"]

\* The entry pushed with the first of its text lines only.
SubtitleEntryFirstLine(cur, textLines) ==
    [id |-> cur.id, startTime |-> cur.startTime, endTime |-> cur.endTime,
     text |-> <<Head(textLines)>>]

SubtitleEntry(cur, textLines) ==
    [id |-> cur.id, startTime |-> cur.startTime, endTime |-> cur.endTime,
     text |-> textLines]

\* The push condition without the test of currentTextLines.
FlushableWithoutText(cur, textLines) == cur.kind = "timed"

\* `currentEntry && currentTextLines.length > 0`, then the push of
\* { ...currentEntry, text }: the spread copies the fields currentEntry has.
Flushable(cur, textLines) == cur.kind # "null" /\ Len(textLines) > 0

\* The loop of parseSRT from line i on; at the end of the lines it yields
\* the entries pushed so far, currentEntry and currentTextLines.
RECURSIVE ParseLines(_, _, _, _, _)
ParseLines(lines, i, entries, cur, textLines) ==
    IF i > Len(lines)
    THEN [ok |-> TRUE, entries |-> entries, cur |-> cur,
          textLines |-> textLines]
    ELSE
    LET lineNumber == i
        line == Trim(lines[i])
    IN  IF line = <<>>
        THEN IF Flushable(cur, textLines)
             THEN ParseLines(lines, i + 1,
                             Append(entries, SubtitleEntry(cur, textLines)),
                             NullEntry, <<>>)
             ELSE ParseLines(lines, i + 1, entries, cur, textLines)
        ELSE IF cur.kind = "null"
        THEN IF isNaN(parseInt(line))
             THEN SRTParseError("Invalid subtitle ID", <<>>, lineNumber)
             ELSE ParseLines(lines, i + 1, entries,
                             [kind |-> "id", id |-> parseInt(line)], textLines)
        ELSE IF cur.kind = "id"
        THEN IF ~MatchesTimingLine(line)
             THEN SRTParseError("Invalid timestamp line", <<>>, lineNumber)
             ELSE LET startTime == SubSeq(line, 1, 12)
                      endTime == SubSeq(line, 18, 29)
                  IN  IF ~parseTimestamp(startTime).ok
                      THEN parseTimestamp(startTime)
                      ELSE IF ~parseTimestamp(endTime).ok
                      THEN parseTimestamp(endTime)
                      ELSE ParseLines(lines, i + 1, entries,
                                      [kind |-> "timed", id |-> cur.id,
                                       startTime |-> startTime,
                                       endTime |-> endTime],
                                      textLines)
        ELSE ParseLines(lines, i + 1, entries, cur, Append(textLines, line))

\* "Add the last entry if exists", with nothing pushed.
AddLastEntryNever(entries, cur, textLines) == entries

\* "Add the last entry if exists", after the loop of parseSRT.
AddLastEntry(entries, cur, textLines) ==
    IF Flushable(cur, textLines)
    THEN Append(entries, SubtitleEntry(cur, textLines))
    ELSE entries

parseSRT(text) ==
    LET loop == ParseLines(Split(Trim(text), NL), 1, <<>>, NullEntry, <<>>)
    IN  IF ~loop.ok THEN loop
        ELSE [ok |-> TRUE,
              entries |-> AddLastEntry(loop.entries, loop.cur,
                                       loop.textLines)]

\* The block of one entry without the '' that ends it.
FormatEntryWithoutSeparator(entry) ==
    Join(<<NumberToString(entry.id),
           entry.startTime \o Arrow \o entry.endTime>>
         \o entry.text, NL)

\* The block formatSRT emits for one entry.
FormatEntry(entry) ==
    Join(<<NumberToString(entry.id),
           entry.startTime \o Arrow \o entry.endTime>>
         \o entry.text \o << <<>> >>, NL)

formatSRT(entries) ==
    Join([i \in 1..Len(entries) |-> FormatEntry(entries[i])], NL)

(***************************************************************************)
(* parseSRT and formatSRT applied to sample documents                      *)
(***************************************************************************)
Stamp1000 == <<"0","0",":","0","0",":","0","1",",","0","0","0">>
Stamp4000 == <<"0","0",":","0","0",":","0","4",",","0","0","0">>
Stamp5000 == <<"0","0",":","0","0",":","0","5",",","0","0","0">>
Stamp8000 == <<"0","0",":","0","0",":","0","8",",","0","0","0">>

\* An id line whose value is 10^21.
HugeIdLine ==
    <<"1","0","0","0","0","0","0","0","0","0","0",
      "0","0","0","0","0","0","0","0","0","0","0">>

\* The pieces sample documents are made of: each a run of source lines.
Pieces ==
    { << <<"1">>, Stamp1000 \o Arrow \o Stamp4000, <<"H","i">> >>,
      << <<"2">>, Stamp5000 \o Arrow \o Stamp8000, <<"Y","o">>, <<"H","i">> >>,
      << <<" ","2","\r">>, Stamp5000 \o Arrow \o Stamp8000 \o <<"\r">>,
         <<" ","Y","o"," ","\r">> >>,
      << HugeIdLine, Stamp1000 \o Arrow \o Stamp4000, <<"H","i">> >>,
      << <<"1">>, Stamp1000 \o <<" ","-",">"," ">> \o Stamp4000, <<"H","i">> >>,
      << <<"3">> >>,
      << Stamp5000 \o Arrow \o Stamp8000 >>,
      << <<"x">> >>,
      << <<>> >> }

\* Largest number of pieces in a sample document.
MaxPieces == 3

RECURSIVE Flatten(_)
Flatten(pieces) ==
    IF pieces = <<>> THEN <<>> ELSE Head(pieces) \o Flatten(Tail(pieces))

Documents ==
    { Join(Flatten(ps), NL) :
        ps \in UNION { [1..n -> Pieces] : n \in 0..MaxPieces } }

SrtIdle ==
    /\ srtPc = "idle"
    /\ content = <<>>
    /\ parsed = NotYet
    /\ formatted = <<>>
    /\ reparsed = NotYet

SrtInit ==
    /\ srtPc = "parse"
    /\ content \in Documents
    /\ parsed = NotYet
    /\ formatted = <<>>
    /\ reparsed = NotYet

\* parseSRT(content)
ParseSrtStep ==
    /\ srtPc = "parse"
    /\ parsed' = parseSRT(content)
    /\ srtPc' = "parsed"
    /\ UNCHANGED <<content, formatted, reparsed, tsVars, playerVars, trVars>>

\* formatSRT(entries) of the entries parseSRT returned
FormatSrtStep ==
    /\ srtPc = "parsed"
    /\ parsed.ok
    /\ formatted' = formatSRT(parsed.entries)
    /\ srtPc' = "formatted"
    /\ UNCHANGED <<content, parsed, reparsed, tsVars, playerVars, trVars>>

\* parseSRT(formatSRT(entries))
ReparseSrtStep ==
    /\ srtPc = "formatted"
    /\ reparsed' = parseSRT(formatted)
    /\ srtPc' = "done"
    /\ UNCHANGED <<content, parsed, formatted, tsVars, playerVars, trVars>>

(***************************************************************************)
(* JavaScript numbers of the correction                                    *)
(*                                                                         *)
(* interpolateTime computes in seconds with IEEE doubles.  The model holds *)
(* a finite value as the exact fraction num/den of a millisecond count     *)
(* (den > 0), and keeps the three non-finite values a division by zero     *)
(* produces.                                                               *)
(***************************************************************************)
Fin(num, den) == [k |-> "fin", num |-> num, den |-> den]
NotANumber == [k |-> "nan", num |-> 0, den |-> 1]
PlusInfinity == [k |-> "inf", num |-> 1, den |-> 1]
MinusInfinity == [k |-> "inf", num |-> -1, den |-> 1]

Num(n) == Fin(n, 1)

Sign(a) == IF a.num > 0 THEN 1 ELSE IF a.num < 0 THEN -1 ELSE 0

Infinite(sign) == IF sign > 0 THEN PlusInfinity ELSE MinusInfinity

JsAdd(a, b) ==
    IF a.k = "nan" \/ b.k = "nan" THEN NotANumber
    ELSE IF a.k = "inf" /\ b.k = "inf"
         THEN IF Sign(a) = Sign(b) THEN a ELSE NotANumber
    ELSE IF a.k = "inf" THEN a
    ELSE IF b.k = "inf" THEN b
    ELSE Fin(a.num * b.den + b.num * a.den, a.den * b.den)

JsMul(a, b) ==
    IF a.k = "nan" \/ b.k = "nan" THEN NotANumber
    ELSE IF a.k = "inf" \/ b.k = "inf"
         THEN IF Sign(a) * Sign(b) = 0 THEN NotANumber
              ELSE Infinite(Sign(a) * Sign(b))
    ELSE Fin(a.num * b.num, a.den * b.den)

JsDiv(a, b) ==
    IF a.k = "nan" \/ b.k = "nan" THEN NotANumber
    ELSE IF a.k = "inf"
         THEN IF b.k = "inf" THEN NotANumber
              ELSE Infinite(IF Sign(b) < 0 THEN -Sign(a) ELSE Sign(a))
    ELSE IF b.k = "inf" THEN Num(0)
    ELSE IF b.num = 0
         THEN IF a.num = 0 THEN NotANumber ELSE Infinite(Sign(a))
    ELSE IF b.num > 0 THEN Fin(a.num * b.den, a.den * b.num)
    ELSE Fin(-(a.num * b.den), -(a.den * b.num))

\* Math.round: the nearest integer, a half rounded up; non-finite values
\* are returned as they are.
MathRound(a) ==
    IF a.k # "fin" THEN a
    ELSE Num((2 * a.num + a.den) \div (2 * a.den))

\* formatTimestamp for the Number Math.round returned: NaN and the
\* infinities print by name, and every field computed from them is NaN.
formatTimestampNumber(a) ==
    IF a.k = "fin" THEN formatTimestamp(a.num)
    ELSE LET hours == IF a.k = "nan" THEN NaN
                      ELSE IF Sign(a) > 0
                           THEN <<"I","n","f","i","n","i","t","y">>
                           ELSE <<"-","I","n","f","i","n","i","t","y">>
         IN  hours \o <<":">> \o NaN \o <<":">> \o NaN \o <<",">> \o NaN

(***************************************************************************)
(* The sync correction of the player                                       *)
(***************************************************************************)
\* A sync point of the player; audioTime and subtitleTime in milliseconds.
SyncPoint(id, audioTime, subtitleTime, subtitleId) ==
    [id |-> id, audioTime |-> audioTime, subtitleTime |-> subtitleTime,
     subtitleId |-> subtitleId]

\* convertSRTTimeToSeconds, times 1000
convertSRTTimeToSeconds(srtTimestamp) == parseTimestamp(srtTimestamp).ms

\* [...syncPoints].sort((a, b) => a.subtitleTime - b.subtitleTime): stable.
RECURSIVE InsertSorted(_, _)
InsertSorted(sorted, p) ==
    IF sorted = <<>> THEN <<p>>
    ELSE IF sorted[Len(sorted)].subtitleTime <= p.subtitleTime
         THEN Append(sorted, p)
         ELSE Append(InsertSorted(SubSeq(sorted, 1, Len(sorted) - 1), p),
                     sorted[Len(sorted)])

\* The sync points used in the order they are stored, without the sort.
SortOmitted(points) == points

RECURSIVE SortBySubtitleTime(_)
SortBySubtitleTime(points) ==
    IF points = <<>> THEN <<>>
    ELSE InsertSorted(SortBySubtitleTime(SubSeq(points, 1, Len(points) - 1)),
                      points[Len(points)])

\* The extrapolation with the offset of the nearest point, slope ignored.
ExtrapolateOffsetOnly(originalTime, point1, point2, anchor) ==
    Num(originalTime + (anchor.audioTime - anchor.subtitleTime))

\* The extrapolation that starts at point1.audioTime in both branches.
ExtrapolateFromPoint1(originalTime, point1, point2, anchor) ==
    LET slope == JsDiv(Num(point2.audioTime - point1.audioTime),
                       Num(point2.subtitleTime - point1.subtitleTime))
    IN  JsAdd(Num(point1.audioTime),
              JsMul(slope, Num(originalTime - anchor.subtitleTime)))

\* anchor.audioTime + slope * (originalTime - anchor.subtitleTime), with
\* slope = (point2.audioTime - point1.audioTime)
\*         / (point2.subtitleTime - point1.subtitleTime)
Extrapolate(originalTime, point1, point2, anchor) ==
    LET slope == JsDiv(Num(point2.audioTime - point1.audioTime),
                       Num(point2.subtitleTime - point1.subtitleTime))
    IN  JsAdd(Num(anchor.audioTime),
              JsMul(slope, Num(originalTime - anchor.subtitleTime)))

\* The bracket loop with the progress measured from the end point.
RECURSIVE BracketFromEnd(_, _, _)
BracketFromEnd(originalTime, sorted, i) ==
    IF i > Len(sorted) - 1 THEN Num(originalTime)
    ELSE
    LET startPoint == sorted[i]
        endPoint == sorted[i + 1]
        segmentOriginalDuration == endPoint.subtitleTime - startPoint.subtitleTime
        segmentTargetDuration == endPoint.audioTime - startPoint.audioTime
        progress == JsDiv(Num(endPoint.subtitleTime - originalTime),
                          Num(segmentOriginalDuration))
    IN  IF /\ originalTime >= startPoint.subtitleTime
           /\ originalTime <= endPoint.subtitleTime
        THEN JsAdd(Num(startPoint.audioTime),
                   JsMul(progress, Num(segmentTargetDuration)))
        ELSE BracketFromEnd(originalTime, sorted, i + 1)

\* The bracket loop with the target duration of the segment negated.
RECURSIVE BracketNegatedDuration(_, _, _)
BracketNegatedDuration(originalTime, sorted, i) ==
    IF i > Len(sorted) - 1 THEN Num(originalTime)
    ELSE
    LET startPoint == sorted[i]
        endPoint == sorted[i + 1]
        segmentOriginalDuration == endPoint.subtitleTime - startPoint.subtitleTime
        segmentTargetDuration == startPoint.audioTime - endPoint.audioTime
        progress == JsDiv(Num(originalTime - startPoint.subtitleTime),
                          Num(segmentOriginalDuration))
    IN  IF /\ originalTime >= startPoint.subtitleTime
           /\ originalTime <= endPoint.subtitleTime
        THEN JsAdd(Num(startPoint.audioTime),
                   JsMul(progress, Num(segmentTargetDuration)))
        ELSE BracketNegatedDuration(originalTime, sorted, i + 1)

\* The bracket loop of interpolateTime from segment i on.
RECURSIVE Bracket(_, _, _)
Bracket(originalTime, sorted, i) ==
    IF i > Len(sorted) - 1 THEN Num(originalTime)
    ELSE
    LET startPoint == sorted[i]
        endPoint == sorted[i + 1]
        segmentOriginalDuration == endPoint.subtitleTime - startPoint.subtitleTime
        segmentTargetDuration == endPoint.audioTime - startPoint.audioTime
        progress == JsDiv(Num(originalTime - startPoint.subtitleTime),
                          Num(segmentOriginalDuration))
    IN  IF /\ originalTime >= startPoint.subtitleTime
           /\ originalTime <= endPoint.subtitleTime
        THEN JsAdd(Num(startPoint.audioTime),
                   JsMul(progress, Num(segmentTargetDuration)))
        ELSE Bracket(originalTime, sorted, i + 1)

interpolateTime(originalTime, sortedSyncPoints) ==
    LET n == Len(sortedSyncPoints)
        first == sortedSyncPoints[1]
        last == sortedSyncPoints[n]
    IN  IF originalTime <= first.subtitleTime
        THEN IF n >= 2
             THEN Extrapolate(originalTime, first, sortedSyncPoints[2], first)
             ELSE Num(originalTime + (first.audioTime - first.subtitleTime))
        ELSE IF originalTime >= last.subtitleTime
        THEN IF n >= 2
             THEN Extrapolate(originalTime, sortedSyncPoints[n - 1], last, last)
             ELSE Num(originalTime + (first.audioTime - first.subtitleTime))
        ELSE Bracket(originalTime, sortedSyncPoints, 1)

\* Minimum duration the offset branch leaves an entry.
MinDurationMs == 100

Max(a, b) == IF a >= b THEN a ELSE b

\* The offset branch without the two clamps.
OffsetEntryUnclamped(subtitle, offsetMs) ==
    LET startMs == parseTimestamp(subtitle.startTime).ms + offsetMs
        endMs == parseTimestamp(subtitle.endTime).ms + offsetMs
    IN  [subtitle EXCEPT !.startTime = formatTimestamp(startMs),
                         !.endTime = formatTimestamp(endMs)]

\* The offset branch of applySyncCorrection for one entry.
OffsetEntry(subtitle, offsetMs) ==
    LET startMs == parseTimestamp(subtitle.startTime).ms + offsetMs
        endMs == parseTimestamp(subtitle.endTime).ms + offsetMs
        adjustedStartMs == Max(0, startMs)
        adjustedEndMs == Max(adjustedStartMs + MinDurationMs, endMs)
    IN  [subtitle EXCEPT !.startTime = formatTimestamp(adjustedStartMs),
                         !.endTime = formatTimestamp(adjustedEndMs)]

\* The interpolation branch of applySyncCorrection for one entry.
InterpolateEntry(subtitle, sortedSyncPoints) ==
    LET startTimeSeconds == convertSRTTimeToSeconds(subtitle.startTime)
        endTimeSeconds == convertSRTTimeToSeconds(subtitle.endTime)
        newStartTime == interpolateTime(startTimeSeconds, sortedSyncPoints)
        newEndTime == interpolateTime(endTimeSeconds, sortedSyncPoints)
    IN  [subtitle EXCEPT
            !.startTime = formatTimestampNumber(MathRound(newStartTime)),
            !.endTime = formatTimestampNumber(MathRound(newEndTime))]

\* The throw with a guard that refuses two sync points of one subtitleTime.
applySyncCorrectionThrowsOnSharedTime(originalSubtitles, points) ==
    \/ \E i \in 1..Len(originalSubtitles) :
           \/ ~parseTimestamp(originalSubtitles[i].startTime).ok
           \/ ~parseTimestamp(originalSubtitles[i].endTime).ok
    \/ \E i, j \in 1..Len(points) :
           i # j /\ points[i].subtitleTime = points[j].subtitleTime

\* applySyncCorrection throws instead of returning: the SRTParseError of a
\* parseTimestamp call of either map callback, which nothing catches.
applySyncCorrectionThrows(originalSubtitles, points) ==
    \E i \in 1..Len(originalSubtitles) :
        \/ ~parseTimestamp(originalSubtitles[i].startTime).ok
        \/ ~parseTimestamp(originalSubtitles[i].endTime).ok

\* applySyncCorrection(originalSubtitles), reading the sync points `points`
\* of the component.
applySyncCorrection(originalSubtitles, points) ==
    IF Len(points) < 2
    THEN LET offsetMs == IF Len(points) = 1
                         THEN points[1].audioTime - points[1].subtitleTime
                         ELSE 0
         IN  [i \in 1..Len(originalSubtitles) |->
                 OffsetEntry(originalSubtitles[i], offsetMs)]
    ELSE LET sortedSyncPoints == SortBySubtitleTime(points)
         IN  [i \in 1..Len(originalSubtitles) |->
                 InterpolateEntry(originalSubtitles[i], sortedSyncPoints)]

(***************************************************************************)
(* The player: sync point management                                       *)
(***************************************************************************)
Stamp0 == <<"0","0",":","0","0",":","0","0",",","0","0","0">>
Stamp50 == <<"0","0",":","0","0",":","0","0",",","0","5","0">>
Stamp7503 == <<"0","0",":","0","0",":","0","7",",","5","0","3">>
Stamp10000 == <<"0","0",":","0","0",":","1","0",",","0","0","0">>
Stamp12000 == <<"0","0",":","0","0",":","1","2",",","0","0","0">>
Stamp20000 == <<"0","0",":","0","0",":","2","0",",","0","0","0">>
Stamp21004 == <<"0","0",":","0","0",":","2","1",",","0","0","4">>

Entry(id, startTime, endTime, text) ==
    [id |-> id, startTime |-> startTime, endTime |-> endTime, text |-> text]

\* The subtitle lists handed to the player: entries as parseSRT returns
\* them.
SubtitleLists ==
    { << Entry(<<"1">>, Stamp1000, Stamp4000, << <<"H","i">> >>),
         Entry(<<"2">>, Stamp5000, Stamp8000, << <<"Y","o">>, <<"H","i">> >>) >>,
      << Entry(<<"1">>, Stamp0, Stamp50, << <<"H","i">> >>),
         Entry(<<"2">>, Stamp5000, Stamp7503, << <<"Y","o">> >>),
         Entry(<<"3">>, Stamp10000, Stamp12000, << <<"H","i">> >>),
         Entry(<<"4">>, Stamp20000, Stamp21004, << <<"Y","o">> >>) >>,
      << Entry(<<"1">>, Stamp1000, Stamp4000, << <<"H","i">> >>),
         Entry(<<"2">>, Stamp4000, Stamp8000, << <<"Y","o">> >>) >> }

\* Playback positions (ms) at which the user creates sync points.
AudioTimes == {0, 1500, 11000}

\* Largest number of sync points created in one session.
MaxSyncPoints == 3

PlayerIdle ==
    /\ mode = "idle"
    /\ subtitles = <<>>
    /\ syncPoints = <<>>
    /\ correctedSubtitles = <<>>
    /\ nextSyncId = 1

PlayerInit ==
    /\ mode = "player"
    /\ subtitles \in SubtitleLists
    /\ syncPoints = <<>>
    /\ correctedSubtitles = <<>>
    /\ nextSyncId = 1

\* selectSubtitleForSync -> createSyncPointForSubtitle(audioTimeSeconds,
\* subtitle), for a subtitle of the selector list; the id of the new point
\* is fresh.
createSyncPointForSubtitle(audioTime, subtitle) ==
    /\ mode = "player"
    /\ nextSyncId <= MaxSyncPoints
    /\ LET syncPoint == SyncPoint(nextSyncId, audioTime,
                                  convertSRTTimeToSeconds(subtitle.startTime),
                                  subtitle.id)
       IN  /\ syncPoints' = Append(syncPoints, syncPoint)
           /\ correctedSubtitles' = applySyncCorrection(subtitles, syncPoints')
    /\ nextSyncId' = nextSyncId + 1
    /\ UNCHANGED <<mode, subtitles, tsVars, srtVars, trVars>>

AddSyncPoint ==
    \E audioTime \in AudioTimes, i \in 1..Len(subtitles) :
        createSyncPointForSubtitle(audioTime, subtitles[i])

\* The filter with the test turned round: it keeps the point of the id.
FilterOutKeepOnly(points, syncPointId) ==
    LET Keep(sp) == sp.id = syncPointId IN SelectSeq(points, Keep)

\* syncPoints.filter(sp => sp.id !== syncPointId)
FilterOut(points, syncPointId) ==
    LET Keep(sp) == sp.id # syncPointId IN SelectSeq(points, Keep)

\* removeSyncPoint without the recalculation of the corrections.
removeSyncPointKeepCorrected(syncPointId) ==
    /\ mode = "player"
    /\ syncPoints' = FilterOut(syncPoints, syncPointId)
    /\ correctedSubtitles' =
           IF Len(syncPoints') > 0 THEN correctedSubtitles ELSE <<>>
    /\ UNCHANGED <<mode, subtitles, nextSyncId, tsVars, srtVars, trVars>>

removeSyncPoint(syncPointId) ==
    /\ mode = "player"
    /\ syncPoints' = FilterOut(syncPoints, syncPointId)
    /\ correctedSubtitles' =
           IF Len(syncPoints') > 0
           THEN applySyncCorrection(subtitles, syncPoints')
           ELSE <<>>
    /\ UNCHANGED <<mode, subtitles, nextSyncId, tsVars, srtVars, trVars>>

RemoveSyncPoint == \E syncPointId \in 1..MaxSyncPoints : removeSyncPoint(syncPointId)

\* clearSyncPoints without the reset of correctedSubtitles.
clearSyncPointsKeepCorrected ==
    /\ mode = "player"
    /\ syncPoints' = <<>>
    /\ UNCHANGED <<mode, subtitles, correctedSubtitles, nextSyncId, tsVars, srtVars, trVars>>

clearSyncPoints ==
    /\ mode = "player"
    /\ syncPoints' = <<>>
    /\ correctedSubtitles' = <<>>
    /\ UNCHANGED <<mode, subtitles, nextSyncId, tsVars, srtVars, trVars>>

\* The parent assigns the entries of a newly parsed file to the subtitles
\* prop; the reactive statement on subtitles calls createSubtitleRegions,
\* which draws regions and leaves syncPoints and correctedSubtitles alone.
handleSubtitlesParsed ==
    /\ mode = "player"
    /\ subtitles' \in SubtitleLists
    /\ UNCHANGED <<mode, syncPoints, correctedSubtitles, nextSyncId, tsVars, srtVars, trVars>>

(***************************************************************************)
(* applySyncCorrection applied to sample inputs                            *)
(***************************************************************************)
\* Largest number of sync points of a sampled sync point list.
MaxPoints == 3

\* The sync point lists createSyncPointForSubtitle can build for a subtitle
\* list, of every length up to MaxPoints (the empty list included).
SyncPointLists(subs) ==
    { [i \in DOMAIN choice |-> SyncPoint(i, choice[i][1],
                                convertSRTTimeToSeconds(subs[choice[i][2]].startTime),
                                subs[choice[i][2]].id)] :
        choice \in UNION { [1..n -> AudioTimes \X (1..Len(subs))] : n \in 0..MaxPoints } }

CorrectionInit ==
    /\ mode = "call"
    /\ subtitles \in SubtitleLists
    /\ syncPoints \in SyncPointLists(subtitles)
    /\ correctedSubtitles = <<>>
    /\ nextSyncId = 1

\* The call with the sync points sorted in place, not in a copy.
ApplyStepSortsInPlace ==
    /\ mode = "call"
    /\ correctedSubtitles' = applySyncCorrection(subtitles, syncPoints)
    /\ syncPoints' = IF Len(syncPoints) < 2 THEN syncPoints
                     ELSE SortBySubtitleTime(syncPoints)
    /\ mode' = "returned"
    /\ UNCHANGED <<subtitles, nextSyncId, tsVars, srtVars, trVars>>

\* correctedSubtitles = applySyncCorrection(subtitles); a throw leaves the
\* assignment undone.
ApplyStep ==
    /\ mode = "call"
    /\ IF applySyncCorrectionThrows(subtitles, syncPoints)
       THEN /\ mode' = "threw"
            /\ UNCHANGED correctedSubtitles
       ELSE /\ correctedSubtitles' = applySyncCorrection(subtitles, syncPoints)
            /\ mode' = "returned"
    /\ UNCHANGED <<subtitles, syncPoints, nextSyncId, tsVars, srtVars, trVars>>

(***************************************************************************)
(* The translation service: translateSubtitles and translateBatch          *)
(***************************************************************************)
MaxLines == 3
MaxBatchSize == 2
MaxRetriesSetting == 2

\* A subtitle text of n characters; the lines of one input differ in length.
LineOf(n) == [k \in 1..n |-> "a"]

LineLists == { [k \in 1..n |-> LineOf(k)] : n \in 0..MaxLines }

\* TranslationSettings as the settings modal hands them over: the two number
\* fields are saved as typed, zero included.
SettingsSample ==
    [batchSize : 0..MaxBatchSize, maxRetries : 0..MaxRetriesSetting]

\* What callOpenAI settles with: ok = FALSE is a rejected fetch or a
\* response that is not ok (callOpenAI throws); otherwise content is
\* choices[0].message.content of the body, empty when it is missing.
ApiError == [ok |-> FALSE, content |-> <<>>]

ResponseContents ==
    { <<>>,
      <<"1", ".", " ", "x">>,
      <<"x", NL, "y">>,
      <<" ", "x", " ", NL, NL, "2", ".", "y", NL, "z", NL, "w", NL, "v">> }

Responses == {ApiError} \cup { [ok |-> TRUE, content |-> c] : c \in ResponseContents }

\* Array.prototype.slice(start, end) with 0 <= start <= end.
Slice(arr, start, end) ==
    SubSeq(arr, start + 1, IF end < Len(arr) THEN end ELSE Len(arr))

\* line.replace(/^\d+\.\s*/, '')
RemoveNumbering(line) ==
    LET d == Len(LeadingDigits(line))
    IN  IF d >= 1 /\ Len(line) > d /\ line[d + 1] = "."
        THEN TrimStart(SubSeq(line, d + 2, Len(line)))
        ELSE line

\* parseTranslationResponse: threw when there is no content, else exactly
\* expectedCount lines.
parseTranslationResponse(resp, expectedCount) ==
    IF resp.content = <<>>
    THEN [threw |-> TRUE, lines |-> <<>>]
    ELSE LET parts == Split(resp.content, NL)
             trimmed == [k \in 1..Len(parts) |-> Trim(parts[k])]
             NonEmpty(line) == Len(line) > 0
             kept == SelectSeq(trimmed, NonEmpty)
             lines == [k \in 1..Len(kept) |-> RemoveNumbering(kept[k])]
             padded ==
                 lines \o [k \in 1..(expectedCount - Len(lines)) |-> <<>>]
         IN  [threw |-> FALSE,
              lines |-> IF Len(lines) # expectedCount
                        THEN SubSeq(padded, 1, expectedCount)
                        ELSE lines]

TrIdle ==
    /\ trPc = "idle"
    /\ settings = [batchSize |-> 1, maxRetries |-> 1]
    /\ trLines = <<>>
    /\ trIndex = 0
    /\ batch = <<>>
    /\ attempt = 0
    /\ calls = 0
    /\ response = ApiError
    /\ translations = <<>>

\* translateSubtitles is entered: i = 0, translations = [].
TrInit ==
    /\ trPc = "for"
    /\ settings \in SettingsSample
    /\ trLines \in LineLists
    /\ trIndex = 0
    /\ batch = <<>>
    /\ attempt = 0
    /\ calls = 0
    /\ response = ApiError
    /\ translations = <<>>

\* translateBatch returns result: translateSubtitles pushes it and the loop
\* advances i by batchSize.
ReturnFromBatch(result) ==
    /\ translations' = translations \o result
    /\ trIndex' = trIndex + settings.batchSize
    /\ trPc' = "for"

\* The loop test of translateSubtitles: the next batch is sliced and handed
\* to translateBatch (attempt = 0), or the translations are returned.
ForStep ==
    /\ trPc = "for"
    /\ IF trIndex < Len(trLines)
       THEN /\ batch' = Slice(trLines, trIndex, trIndex + settings.batchSize)
            /\ attempt' = 0
            /\ calls' = 0
            /\ trPc' = "while"
       ELSE /\ trPc' = "done"
            /\ UNCHANGED <<batch, attempt, calls>>
    /\ UNCHANGED <<settings, trLines, trIndex, response, translations,
                   tsVars, srtVars, playerVars>>

\* The loop test of translateBatch: callOpenAI is called, or the loop is
\* left and the batch is returned.  calls counts the calls for this batch.
WhileStep ==
    /\ trPc = "while"
    /\ IF attempt < settings.maxRetries
       THEN /\ calls' = calls + 1
            /\ trPc' = "call"
            /\ UNCHANGED <<trIndex, translations>>
       ELSE /\ ReturnFromBatch(batch)
            /\ UNCHANGED calls
    /\ UNCHANGED <<settings, trLines, batch, attempt, response,
                   tsVars, srtVars, playerVars>>

\* callOpenAI settles.  A body with content is parsed and returned; an error,
\* or a body without content, is caught: attempt++, then the batch is
\* returned when the attempts are used up, else the backoff is awaited.
ResponseStep ==
    /\ trPc = "call"
    /\ \E r \in Responses :
        /\ response' = r
        /\ LET res == parseTranslationResponse(r, Len(batch))
           IN  IF r.ok /\ ~res.threw
               THEN /\ ReturnFromBatch(res.lines)
                    /\ UNCHANGED attempt
               ELSE /\ attempt' = attempt + 1
                    /\ IF attempt + 1 >= settings.maxRetries
                       THEN ReturnFromBatch(batch)
                       ELSE /\ trPc' = "backoff"
                            /\ UNCHANGED <<trIndex, translations>>
    /\ UNCHANGED <<settings, trLines, batch, calls,
                   tsVars, srtVars, playerVars>>

\* The backoff timer fires and the loop of translateBatch goes round.
BackoffStep ==
    /\ trPc = "backoff"
    /\ trPc' = "while"
    /\ UNCHANGED <<settings, trLines, trIndex, batch, attempt, calls,
                   response, translations, tsVars, srtVars, playerVars>>

(***************************************************************************)
(* Specifications                                                          *)
(***************************************************************************)
TimestampNext == FormatStep \/ ParseStep \/ FormatBackStep

InitTimestamp == TsInit /\ SrtIdle /\ PlayerIdle /\ TrIdle

SpecTimestamp == InitTimestamp /\ [][TimestampNext]_vars

SrtNext == ParseSrtStep \/ FormatSrtStep \/ ReparseSrtStep

InitSrt == SrtInit /\ TsIdle /\ PlayerIdle /\ TrIdle

SpecSrt == InitSrt /\ [][SrtNext]_vars

CorrectionNext == ApplyStep

InitCorrection == CorrectionInit /\ TsIdle /\ SrtIdle /\ TrIdle

SpecCorrection == InitCorrection /\ [][CorrectionNext]_vars

Init == PlayerInit /\ TsIdle /\ SrtIdle /\ TrIdle

Next == AddSyncPoint \/ RemoveSyncPoint \/ clearSyncPoints

Spec == Init /\ [][Next]_vars

ReloadNext ==
    AddSyncPoint \/ RemoveSyncPoint \/ clearSyncPoints \/ handleSubtitlesParsed

SpecReload == Init /\ [][ReloadNext]_vars

TranslationNext == ForStep \/ WhileStep \/ ResponseStep \/ BackoffStep

InitTranslation == TrInit /\ TsIdle /\ SrtIdle /\ PlayerIdle

\* An async function runs on while a continuation is pending: the fetch
\* settles (with a body or with an error) and the backoff timer fires.
SpecTranslation ==
    InitTranslation /\ [][TranslationNext]_vars /\ WF_vars(TranslationNext)

(***************************************************************************)
(* Properties of the timestamp codec (SpecTimestamp)                       *)
(***************************************************************************)
TsParsed == tsPc \in {"parsed", "done"}

\* C7: for every integer m with 0 <= m < 359999999, parseTimestamp accepts
\* formatTimestamp(m) and returns m.
TimestampRoundTripBelowCeiling ==
    (TsParsed /\ tsIn.kind = "ms" /\ tsIn.ms >= 0 /\ tsIn.ms < 359999999)
        => (tsBack.ok /\ tsBack.ms = tsIn.ms)

\* The largest input of C7, 99:59:59,998, formatted and parsed back.
TimestampRoundTripWitness ==
    /\ tsPc = "parsed"
    /\ tsIn.kind = "ms"
    /\ tsIn.ms = 359999998
    /\ tsText = <<"9","9",":","5","9",":","5","9",",","9","9","8">>
    /\ tsBack.ok
    /\ tsBack.ms = 359999998

\* C8: for every non-negative integer m, with no upper bound,
\* parseTimestamp accepts formatTimestamp(m) and returns m.
TimestampRoundTripUnbounded ==
    (TsParsed /\ tsIn.kind = "ms" /\ tsIn.ms >= 0)
        => (tsBack.ok /\ tsBack.ms = tsIn.ms)

\* The grammar HH:MM:SS,mmm of the codec's description: hours of two or
\* more digits, then two, two and three digits.
ConformsToTimestampGrammar(s) ==
    LET n == Len(s)
    IN  /\ n >= 12
        /\ AllDigits(SubSeq(s, 1, n - 10))
        /\ s[n - 9] = ":"
        /\ AllDigits(SubSeq(s, n - 8, n - 7))
        /\ s[n - 6] = ":"
        /\ AllDigits(SubSeq(s, n - 5, n - 4))
        /\ s[n - 3] = ","
        /\ AllDigits(SubSeq(s, n - 2, n))

RejectedExamples ==
    { <<"1",":","2","3",":","4","5",",","6","7","8">>,
      <<"0","1",":","2","3",":","4","5",".","6","7","8">>,
      <<"0","1",":","2","3",":","4","5",",","6","7">> }

\* parseTimestamp returned no value and threw an SRTParseError whose
\* message ends with the input.
RejectedNaming(result, input) ==
    /\ ~result.ok
    /\ "ms" \notin DOMAIN result
    /\ result.name = "SRTParseError"
    /\ result.text = "Invalid timestamp format: "
    /\ result.arg = input

\* C9: parseTimestamp fails, with an error naming the input, for every
\* string that deviates from HH:MM:SS,mmm, among them a one-digit hours
\* field, '.' before the milliseconds and two millisecond digits.
ParseTimestampRejectsDeviations ==
    /\ (TsParsed /\ ~ConformsToTimestampGrammar(tsText))
           => RejectedNaming(tsBack, tsText)
    /\ (TsParsed /\ tsText \in RejectedExamples)
           => RejectedNaming(tsBack, tsText)

\* "01:23:45.678" was given to parseTimestamp and rejected.
ParseTimestampRejectsWitness ==
    /\ tsPc = "parsed"
    /\ tsText = <<"0","1",":","2","3",":","4","5",".","6","7","8">>
    /\ ~tsBack.ok
    /\ tsBack.arg = tsText

\* The value of the two or three digits of s from position i to j.
FieldValue(s, i, j) ==
    IF j = i + 1 THEN 10 * DigitValue(s[i]) + DigitValue(s[j])
    ELSE 100 * DigitValue(s[i]) + 10 * DigitValue(s[i + 1]) + DigitValue(s[j])

\* C15: for every string HH:MM:SS,mmm parseTimestamp accepts, the result
\* is HH*3600000 + MM*60000 + SS*1000 + mmm.
ParseTimestampValue ==
    (TsParsed /\ tsBack.ok)
        => tsBack.ms = FieldValue(tsText, 1, 2) * 3600000
                       + FieldValue(tsText, 4, 5) * 60000
                       + FieldValue(tsText, 7, 8) * 1000
                       + FieldValue(tsText, 10, 12)

\* "01:23:45,678" was given to parseTimestamp, which returned 5025678.
ParseTimestampValueWitness ==
    /\ tsPc = "parsed"
    /\ tsIn.kind = "text"
    /\ tsText = <<"0","1",":","2","3",":","4","5",",","6","7","8">>
    /\ tsBack.ok
    /\ tsBack.ms = 5025678

\* C16: formatTimestamp is the inverse of parseTimestamp: for every string
\* s parseTimestamp accepts, formatTimestamp(parseTimestamp(s)) = s.
FormatInvertsParse ==
    tsPc = "done" => tsAgain = tsText

\* C16 for the strings whose minutes and seconds are below 60 (not a claim
\* of the specification: the part of C16 that holds).
FormatInvertsParseInRange ==
    (tsPc = "done" /\ FieldValue(tsText, 4, 5) < 60
                   /\ FieldValue(tsText, 7, 8) < 60)
        => tsAgain = tsText

(***************************************************************************)
(* Properties of parseSRT and formatSRT (SpecSrt)                          *)
(***************************************************************************)
SrtParsed == srtPc \in {"parsed", "formatted", "done"}

\* C1: for every entry sequence E parseSRT returns, parseSRT(formatSRT(E))
\* returns a sequence equal to E: the same length, and the same id,
\* startTime, endTime and text lines at every position.
SrtRoundTrip ==
    srtPc = "done"
        => /\ reparsed.ok
           /\ Len(reparsed.entries) = Len(parsed.entries)
           /\ \A i \in 1..Len(parsed.entries) :
                  /\ reparsed.entries[i].id = parsed.entries[i].id
                  /\ reparsed.entries[i].startTime = parsed.entries[i].startTime
                  /\ reparsed.entries[i].endTime = parsed.entries[i].endTime
                  /\ reparsed.entries[i].text = parsed.entries[i].text

\* The round trip of C1 for the entry sequences whose ids are all below
\* 10^21 (not a claim of the specification: the part of C1 that holds).
SrtRoundTripBelowExponent ==
    (srtPc = "done"
     /\ \A i \in 1..Len(parsed.entries) :
            Len(parsed.entries[i].id) < ExponentDigits)
        => (reparsed.ok /\ reparsed.entries = parsed.entries)

\* The lines of the content as given to parseSRT, numbered from 1: a
\* newline that ends the content ends its last line and starts no other.
SourceLines ==
    LET parts == Split(content, NL)
    IN  IF Len(parts) > 1 /\ parts[Len(parts)] = <<>>
        THEN SubSeq(parts, 1, Len(parts) - 1)
        ELSE parts

IsBlankLine(line) == Trim(line) = <<>>

\* The first non-blank line of the content: parseSRT reads it as an id.
IsFirstNonBlank(lines, k) ==
    /\ k \in 1..Len(lines)
    /\ ~IsBlankLine(lines[k])
    /\ \A j \in 1..(k - 1) : IsBlankLine(lines[j])

\* C10: the line that follows an entry's id line must match
\* HH:MM:SS,mmm --> HH:MM:SS,mmm; if it does not, parseSRT fails with the
\* error "Invalid timestamp line" carrying that line's number and returns
\* no entries.  Stated for the id line of the first entry and a written
\* (non-blank) line after it.
TimingLineRequiredAfterId ==
    SrtParsed =>
        \A k \in 1..(Len(SourceLines) - 1) :
            ( /\ IsFirstNonBlank(SourceLines, k)
              /\ ~isNaN(parseInt(Trim(SourceLines[k])))
              /\ ~IsBlankLine(SourceLines[k + 1])
              /\ ~MatchesTimingLine(Trim(SourceLines[k + 1])) )
            => /\ ~parsed.ok
               /\ "entries" \notin DOMAIN parsed
               /\ parsed.name = "SRTParseError"
               /\ parsed.text = "Invalid timestamp line"
               /\ parsed.line = k + 1

\* C10 where the content starts with its first id line (not a claim of the
\* specification: the part of C10 that holds).
TimingLineRequiredAfterLeadingId ==
    ( /\ SrtParsed
      /\ Len(SourceLines) >= 2
      /\ ~IsBlankLine(SourceLines[1])
      /\ ~isNaN(parseInt(Trim(SourceLines[1])))
      /\ ~IsBlankLine(SourceLines[2])
      /\ ~MatchesTimingLine(Trim(SourceLines[2])) )
    => /\ ~parsed.ok
       /\ "entries" \notin DOMAIN parsed
       /\ parsed.text = "Invalid timestamp line"
       /\ parsed.line = 2

\* The content made of the first k source lines.
PrefixContent(k) == Join(SubSeq(SourceLines, 1, k), NL)

\* The content made of the source lines after line k.
SuffixContent(k) == Join(SubSeq(SourceLines, k + 1, Len(SourceLines)), NL)

\* Line k is where an entry id is expected: the first non-blank line of the
\* content, or a non-blank line right after a blank line.
IsIdPosition(lines, k) ==
    /\ k \in 1..Len(lines)
    /\ ~IsBlankLine(lines[k])
    /\ \/ \A j \in 1..(k - 1) : IsBlankLine(lines[j])
       \/ IsBlankLine(lines[k - 1])

\* parseSRT failed with the message `text` at line `line`.
FailedWith(result, text, line) ==
    /\ ~result.ok
    /\ "entries" \notin DOMAIN result
    /\ result.name = "SRTParseError"
    /\ result.text = text
    /\ result.line = line

\* C11: the first non-blank line of the content, and the first non-blank
\* line after every blank line, is read as an entry id; if it does not
\* parse as an integer, parseSRT fails with "Invalid subtitle ID" carrying
\* that line's number.  Stated for a line the lines before which parse.
InvalidIdRejected ==
    SrtParsed =>
        \A k \in 1..Len(SourceLines) :
            ( /\ IsIdPosition(SourceLines, k)
              /\ isNaN(parseInt(Trim(SourceLines[k])))
              /\ parseSRT(PrefixContent(k - 1)).ok )
            => FailedWith(parsed, "Invalid subtitle ID", k)

\* C11 for the first line of the content (not a claim of the
\* specification: the part of C11 that holds).
InvalidIdRejectedAtStart ==
    ( /\ SrtParsed
      /\ Len(SourceLines) >= 1
      /\ ~IsBlankLine(SourceLines[1])
      /\ isNaN(parseInt(Trim(SourceLines[1]))) )
    => FailedWith(parsed, "Invalid subtitle ID", 1)

\* The source line that makes parseSRT fail: the last line of the shortest
\* run of leading source lines that parseSRT rejects.
FailingLine ==
    CHOOSE n \in 1..Len(SourceLines) :
        /\ ~parseSRT(PrefixContent(n)).ok
        /\ \A j \in 0..(n - 1) : parseSRT(PrefixContent(j)).ok

\* C12: every error parseSRT raises carries a line number, and it is the
\* 1-based position, in the content given to parseSRT, of the line that
\* caused the failure, also when the content starts with blank lines.
ErrorLineIsSourceLine ==
    (SrtParsed /\ ~parsed.ok)
        => /\ parsed.name = "SRTParseError"
           /\ parsed.line # NoLine
           /\ parsed.line = FailingLine

\* C12 for a content that does not start with a blank line (not a claim of
\* the specification: the part of C12 that holds).
ErrorLineWithoutLeadingBlank ==
    (SrtParsed /\ ~parsed.ok /\ ~IsBlankLine(SourceLines[1]))
        => /\ parsed.line # NoLine
           /\ parsed.line = FailingLine

\* The blocks of a document: its maximal runs of non-blank lines, each
\* line trimmed, in source order.
RECURSIVE Blocks(_, _, _)
Blocks(lines, i, run) ==
    IF i > Len(lines)
    THEN IF run = <<>> THEN <<>> ELSE <<run>>
    ELSE IF IsBlankLine(lines[i])
         THEN (IF run = <<>> THEN <<>> ELSE <<run>>)
              \o Blocks(lines, i + 1, <<>>)
         ELSE Blocks(lines, i + 1, Append(run, Trim(lines[i])))

SourceBlocks == Blocks(SourceLines, 1, <<>>)

\* An integer id line, a timing line, one or more text lines.
IsWellFormedBlock(block) ==
    /\ Len(block) >= 3
    /\ block[1] # <<>>
    /\ AllDigits(block[1])
    /\ MatchesTimingLine(block[2])

\* The entry a well-formed block describes.
BlockEntry(block) ==
    [id |-> StripLeadingZeros(block[1]),
     startTime |-> SubSeq(block[2], 1, 12),
     endTime |-> SubSeq(block[2], 18, 29),
     text |-> SubSeq(block, 3, Len(block))]

IsWellFormedDocument ==
    /\ SourceBlocks # <<>>
    /\ \A b \in 1..Len(SourceBlocks) : IsWellFormedBlock(SourceBlocks[b])

\* C13: for a document of well-formed blocks separated by blank lines,
\* parseSRT returns one entry per block in source order, each with its
\* block's id, its two timestamps and all of its text lines in order; so
\* when the source ids are 1, 2, 3, ... the entry at 0-based index i has
\* id i + 1.
WellFormedBlocksParsed ==
    (SrtParsed /\ IsWellFormedDocument)
        => /\ parsed.ok
           /\ Len(parsed.entries) = Len(SourceBlocks)
           /\ \A b \in 1..Len(SourceBlocks) :
                  parsed.entries[b] = BlockEntry(SourceBlocks[b])
           /\ (\A b \in 1..Len(SourceBlocks) :
                   SourceBlocks[b][1] = NatToString(b))
                  => \A b \in 1..Len(parsed.entries) :
                         parsed.entries[b].id = NatToString(b)

\* Block 1, a blank line and block 2 with two text lines were parsed into
\* two entries with ids 1 and 2, the second with both its text lines.
WellFormedBlocksWitness ==
    /\ srtPc = "parsed"
    /\ Len(SourceBlocks) = 2
    /\ IsWellFormedDocument
    /\ parsed.ok
    /\ Len(parsed.entries) = 2
    /\ parsed.entries[1].id = <<"1">>
    /\ parsed.entries[2].id = <<"2">>
    /\ parsed.entries[2].text = << <<"Y","o">>, <<"H","i">> >>

\* The lines formatSRT is said to emit for one entry, with a blank line
\* after the id line.
EntryLinesBlankAfterId(entry) ==
    <<NumberToString(entry.id), <<>>,
      entry.startTime \o Arrow \o entry.endTime>>
    \o entry.text \o << <<>> >>

\* The lines of one entry: the id line, the timing line, the text lines
\* and a blank line.
EntryLines(entry) ==
    <<NumberToString(entry.id),
      entry.startTime \o Arrow \o entry.endTime>>
    \o entry.text \o << <<>> >>

SrtFormatted == srtPc \in {"formatted", "done"}

\* C17: formatSRT emits, for each entry in the order given, the id line,
\* a blank line, the `start --> end` line, each text line in order, and
\* then a blank separator line.
FormatEmitsBlankAfterId ==
    SrtFormatted =>
        formatted =
            Join(Flatten([i \in 1..Len(parsed.entries) |->
                             EntryLinesBlankAfterId(parsed.entries[i])]), NL)

\* C17 as amended: formatSRT emits, for each entry in the order given, the
\* id line, the `start --> end` line, each text line in order, and then a
\* blank separator line, with no blank line after the id line.
FormatEmitsEntryLines ==
    SrtFormatted =>
        formatted =
            Join(Flatten([i \in 1..Len(parsed.entries) |->
                             EntryLines(parsed.entries[i])]), NL)

\* Two entries were formatted, the second with two text lines: seven
\* written lines, a blank line between the entries and an empty end.
FormatEmitsWitness ==
    /\ srtPc = "formatted"
    /\ Len(parsed.entries) = 2
    /\ Len(parsed.entries[2].text) = 2
    /\ Len(Split(formatted, NL)) = 9
    /\ Split(formatted, NL)[4] = <<>>
    /\ Split(formatted, NL)[5] = NumberToString(parsed.entries[2].id)

\* C18: a blank line always closes the entry being read; the parser then
\* expects an id line again, and the closed entry is appended if and only
\* if it has a text line.  So a document cut at a blank line parses into
\* the entries of the part before it followed by the entries of the part
\* after it, when parseSRT accepts each part.
BlankLineClosesEntry ==
    SrtParsed =>
        \A k \in 2..(Len(SourceLines) - 1) :
            ( /\ IsBlankLine(SourceLines[k])
              /\ parseSRT(PrefixContent(k - 1)).ok
              /\ parseSRT(SuffixContent(k)).ok )
            => /\ parsed.ok
               /\ parsed.entries = parseSRT(PrefixContent(k - 1)).entries
                                   \o parseSRT(SuffixContent(k)).entries

\* C18 for a blank line that follows a text line (not a claim of the
\* specification: the part of C18 that holds).
BlankLineClosesEntryWithText ==
    SrtParsed =>
        \A k \in 2..(Len(SourceLines) - 1) :
            ( /\ IsBlankLine(SourceLines[k])
              /\ parseSRT(PrefixContent(k - 1)).ok
              /\ parseSRT(SuffixContent(k)).ok
              /\ LET loop == ParseLines(SubSeq(SourceLines, 1, k - 1), 1,
                                        <<>>, NullEntry, <<>>)
                 IN  loop.cur.kind = "null" \/ Len(loop.textLines) > 0 )
            => /\ parsed.ok
               /\ parsed.entries = parseSRT(PrefixContent(k - 1)).entries
                                   \o parseSRT(SuffixContent(k)).entries

\* The loop of parseSRT over the lines of the content, before the last
\* entry is added.
LoopAtEnd == ParseLines(Split(Trim(content), NL), 1, <<>>, NullEntry, <<>>)

\* The input ended while parseSRT was accumulating text for an entry.
EndsAccumulatingText ==
    /\ LoopAtEnd.ok
    /\ LoopAtEnd.cur.kind = "timed"
    /\ Len(LoopAtEnd.textLines) > 0

\* C19: when the input ends while parseSRT is accumulating text for an
\* entry, the entry is appended to the result with all the text lines
\* read so far, exactly as if a blank line had followed.
LastEntryFlushedAtEnd ==
    (SrtParsed /\ EndsAccumulatingText)
        => /\ parsed.ok
           /\ Len(parsed.entries) = Len(LoopAtEnd.entries) + 1
           /\ parsed.entries[Len(parsed.entries)].text = LoopAtEnd.textLines
           /\ parsed.entries =
                  ParseLines(Split(Trim(content), NL) \o << <<>> >>, 1,
                             <<>>, NullEntry, <<>>).entries

\* "2", its timing line and two text lines, with no blank line after them,
\* were parsed into one entry with both text lines.
LastEntryFlushedWitness ==
    /\ srtPc = "parsed"
    /\ content = Join(<< <<"2">>, Stamp5000 \o Arrow \o Stamp8000,
                         <<"Y","o">>, <<"H","i">> >>, NL)
    /\ parsed.ok
    /\ Len(parsed.entries) = 1
    /\ parsed.entries[1].text = << <<"Y","o">>, <<"H","i">> >>

\* C20: every entry parseSRT returns has at least one text line, every
\* text line of it is non-empty, and parseTimestamp accepts its startTime
\* and its endTime.
ReturnedEntriesComplete ==
    (SrtParsed /\ parsed.ok)
        => \A i \in 1..Len(parsed.entries) :
               /\ Len(parsed.entries[i].text) >= 1
               /\ \A j \in 1..Len(parsed.entries[i].text) :
                      parsed.entries[i].text[j] # <<>>
               /\ parseTimestamp(parsed.entries[i].startTime).ok
               /\ parseTimestamp(parsed.entries[i].endTime).ok

\* The block written with carriage returns and padding was parsed into an
\* entry with its trimmed text line and its two timestamps.
ReturnedEntriesWitness ==
    /\ srtPc = "parsed"
    /\ content = Join(<< <<" ","2","\r">>,
                         Stamp5000 \o Arrow \o Stamp8000 \o <<"\r">>,
                         <<" ","Y","o"," ","\r">> >>, NL)
    /\ parsed.ok
    /\ Len(parsed.entries) = 1
    /\ parsed.entries[1].text = << <<"Y","o">> >>
    /\ parsed.entries[1].startTime = Stamp5000
    /\ parsed.entries[1].endTime = Stamp8000

(***************************************************************************)
(* Properties of the correction (SpecCorrection) and of the player (Spec)  *)
(***************************************************************************)
PointSet(points) == {points[i] : i \in 1..Len(points)}

DistinctReferences(points) ==
    \A i, j \in 1..Len(points) :
        i # j => points[i].subtitleTime # points[j].subtitleTime

MinReference(points) ==
    CHOOSE r \in {p.subtitleTime : p \in PointSet(points)} :
        \A p \in PointSet(points) : r <= p.subtitleTime

MaxReference(points) ==
    CHOOSE r \in {p.subtitleTime : p \in PointSet(points)} :
        \A p \in PointSet(points) : r >= p.subtitleTime

\* p and q are consecutive in ascending referenceTime order.
Consecutive(points, p, q) ==
    /\ p \in PointSet(points)
    /\ q \in PointSet(points)
    /\ p.subtitleTime < q.subtitleTime
    /\ ~\E r \in PointSet(points) :
           p.subtitleTime < r.subtitleTime /\ r.subtitleTime < q.subtitleTime

\* The straight line through p and q at t, as the fraction LineNum/LineDen:
\* p.target + (t - p.reference) * (q.target - p.target)
\*            / (q.reference - p.reference)
LineDen(p, q) == q.subtitleTime - p.subtitleTime

LineNum(p, q, t) ==
    p.audioTime * LineDen(p, q)
    + (t - p.subtitleTime) * (q.audioTime - p.audioTime)

\* The finite Number x is exactly num/den (den > 0).
IsFraction(x, num, den) ==
    /\ x.k = "fin"
    /\ x.num \div x.den = num \div den
    /\ (x.num % x.den) * den = (num % den) * x.den

\* The integer c is num/den rounded to the nearest integer (den > 0).
IsNearest(c, num, den) ==
    \/ c = (2 * num + den) \div (2 * den)
    \/ /\ (2 * num + den) % (2 * den) = 0
       /\ c = ((2 * num + den) \div (2 * den)) - 1

RoundedIsNonNegative(num, den) == 2 * num + den >= 0

\* The original start and end times of the entries, each with the corrected
\* timestamp the correction returned for it.
CorrectedTimes ==
    { <<parseTimestamp(subtitles[i].startTime).ms, correctedSubtitles[i].startTime>> :
        i \in 1..Len(subtitles) }
    \cup
    { <<parseTimestamp(subtitles[i].endTime).ms, correctedSubtitles[i].endTime>> :
        i \in 1..Len(subtitles) }

Returned == mode = "returned"

\* The value interpolateTime returns for t with the current sync points.
InterpolatedValue(t) == interpolateTime(t, SortBySubtitleTime(syncPoints))

\* The corrected timestamp c is the line through p and q at t, to the
\* millisecond.
CorrectedOnLine(t, c, p, q) ==
    /\ IsFraction(InterpolatedValue(t), LineNum(p, q, t), LineDen(p, q))
    /\ RoundedIsNonNegative(LineNum(p, q, t), LineDen(p, q))
           => /\ parseTimestamp(c).ok
              /\ IsNearest(parseTimestamp(c).ms, LineNum(p, q, t), LineDen(p, q))

\* C2: with the original entries fixed, after any sequence of add,
\* remove-by-id and clear-all, the corrected entries held equal the
\* correction of the original entries by the current sync points whenever
\* there is a sync point.
CorrectedReflectsCurrentPoints ==
    (mode = "player" /\ Len(syncPoints) > 0)
        => /\ correctedSubtitles = applySyncCorrection(subtitles, syncPoints)
           /\ Len(correctedSubtitles) = Len(subtitles)

\* Two points were added and the first was removed: the corrections are
\* those of the remaining point.
CorrectedAfterRemoveWitness ==
    /\ mode = "player"
    /\ nextSyncId = 3
    /\ Len(syncPoints) = 1
    /\ syncPoints[1].id = 2
    /\ syncPoints[1].audioTime = 1500
    /\ syncPoints[1].subtitleTime = 1000
    /\ Len(correctedSubtitles) = 2
    /\ correctedSubtitles[1].startTime =
           <<"0","0",":","0","0",":","0","1",",","5","0","0">>

\* C3: with two or more sync points of pairwise distinct referenceTime, a
\* time t strictly between the smallest and the largest referenceTime is
\* corrected to p.target + (t - p.reference) * (q.target - p.target)
\* / (q.reference - p.reference) for the consecutive points p, q around t:
\* interpolateTime returns that value, and the corrected timestamp is it
\* to the millisecond.
InterpolatesBetweenPoints ==
    (Returned /\ Len(syncPoints) >= 2 /\ DistinctReferences(syncPoints))
        => \A tc \in CorrectedTimes :
               \A p, q \in PointSet(syncPoints) :
                   ( /\ MinReference(syncPoints) < tc[1]
                     /\ tc[1] < MaxReference(syncPoints)
                     /\ Consecutive(syncPoints, p, q)
                     /\ p.subtitleTime <= tc[1]
                     /\ tc[1] <= q.subtitleTime )
                   => CorrectedOnLine(tc[1], tc[2], p, q)

\* Points (0 -> 0) and (10000 -> 11000): the entry starting at 5000 is
\* corrected to 5500, and its end 7503 to 8253 (8253.3 on the line).
InterpolatesWitness ==
    /\ Returned
    /\ Len(subtitles) = 4
    /\ Len(syncPoints) = 2
    /\ syncPoints[1].subtitleTime = 10000 /\ syncPoints[1].audioTime = 11000
    /\ syncPoints[2].subtitleTime = 0 /\ syncPoints[2].audioTime = 0
    /\ subtitles[2].startTime = Stamp5000
    /\ correctedSubtitles[2].startTime =
           <<"0","0",":","0","0",":","0","5",",","5","0","0">>
    /\ correctedSubtitles[2].endTime =
           <<"0","0",":","0","0",":","0","8",",","2","5","3">>

\* C4: with two or more sync points of pairwise distinct referenceTime, a
\* time t at or before the first referenceTime is corrected along the line
\* through the first two sorted points, and a time at or after the last
\* referenceTime along the line through the last two: interpolateTime
\* returns the value of that line, and the corrected timestamp is it to the
\* millisecond where that is not negative.
ExtrapolatesBeyondPoints ==
    (Returned /\ Len(syncPoints) >= 2 /\ DistinctReferences(syncPoints))
        => \A tc \in CorrectedTimes :
               \A p, q \in PointSet(syncPoints) :
                   /\ ( /\ tc[1] <= MinReference(syncPoints)
                        /\ Consecutive(syncPoints, p, q)
                        /\ p.subtitleTime = MinReference(syncPoints) )
                      => CorrectedOnLine(tc[1], tc[2], p, q)
                   /\ ( /\ tc[1] >= MaxReference(syncPoints)
                        /\ Consecutive(syncPoints, p, q)
                        /\ q.subtitleTime = MaxReference(syncPoints) )
                      => CorrectedOnLine(tc[1], tc[2], p, q)

\* Points (0 -> 0) and (10000 -> 11000): the entry starting at 20000 is
\* corrected to 22000.
ExtrapolatesWitness ==
    /\ Returned
    /\ Len(subtitles) = 4
    /\ Len(syncPoints) = 2
    /\ syncPoints[1].subtitleTime = 0 /\ syncPoints[1].audioTime = 0
    /\ syncPoints[2].subtitleTime = 10000 /\ syncPoints[2].audioTime = 11000
    /\ subtitles[4].startTime = Stamp20000
    /\ correctedSubtitles[4].startTime =
           <<"0","0",":","0","0",":","2","2",",","0","0","0">>

\* C5: with exactly one sync point and offset = targetTime - referenceTime,
\* every corrected start is max(0, start + offset) and every corrected end
\* is max(corrected start + 100, end + offset); so start >= 0 and
\* end >= start + 100, and without a clamp both are the original plus the
\* offset.
SinglePointOffset ==
    (Returned /\ Len(syncPoints) = 1)
        => LET offset == syncPoints[1].audioTime - syncPoints[1].subtitleTime
           IN  /\ Len(correctedSubtitles) = Len(subtitles)
               /\ \A i \in 1..Len(subtitles) :
                      LET start == parseTimestamp(subtitles[i].startTime).ms
                          end == parseTimestamp(subtitles[i].endTime).ms
                          newStart == parseTimestamp(correctedSubtitles[i].startTime)
                          newEnd == parseTimestamp(correctedSubtitles[i].endTime)
                      IN  /\ newStart.ok
                          /\ newEnd.ok
                          /\ newStart.ms = Max(0, start + offset)
                          /\ newEnd.ms = Max(newStart.ms + 100, end + offset)
                          /\ newStart.ms >= 0
                          /\ newEnd.ms >= newStart.ms + 100
                          /\ (start + offset >= 0 /\ end >= start + 100)
                                 => /\ newStart.ms = start + offset
                                    /\ newEnd.ms = end + offset

\* One point, reference 1000 and target 1500: 1000 --> 4000 becomes
\* 1500 --> 4500.
SinglePointOffsetWitness ==
    /\ Returned
    /\ Len(syncPoints) = 1
    /\ syncPoints[1].subtitleTime = 1000
    /\ syncPoints[1].audioTime = 1500
    /\ subtitles[1].startTime = Stamp1000
    /\ correctedSubtitles[1].startTime =
           <<"0","0",":","0","0",":","0","1",",","5","0","0">>
    /\ correctedSubtitles[1].endTime =
           <<"0","0",":","0","0",":","0","4",",","5","0","0">>

CorrectionNeverRaises ==
    /\ mode # "threw"
    /\ Returned
           => /\ Len(correctedSubtitles) = Len(subtitles)
              /\ \A i \in 1..Len(subtitles) :
                     /\ correctedSubtitles[i].id = subtitles[i].id
                     /\ correctedSubtitles[i].text = subtitles[i].text

\* applySyncCorrection returned for two sync points of one subtitleTime
\* and different audio times, where the slope divides by zero.
CorrectionNeverRaisesWitness ==
    /\ Returned
    /\ Len(syncPoints) = 2
    /\ syncPoints[1].subtitleTime = syncPoints[2].subtitleTime
    /\ syncPoints[1].audioTime # syncPoints[2].audioTime
    /\ Len(correctedSubtitles) = Len(subtitles)

(***************************************************************************)
(* Properties of the sync point operations (Spec)                          *)
(***************************************************************************)
\* The list without its element at position k.
WithoutPosition(points, k) ==
    SubSeq(points, 1, k - 1) \o SubSeq(points, k + 1, Len(points))

\* C21: removeSyncPoint with an id one point holds removes exactly that
\* point and keeps the others in their order; the corrected entries are
\* then those of the remaining points, or empty when none remains.  With
\* an id no point holds the sync points are unchanged.
RemoveByIdRemovesOne ==
    [][ \A id \in 1..MaxSyncPoints :
            removeSyncPoint(id) =>
                /\ (\A k \in 1..Len(syncPoints) : syncPoints[k].id # id)
                       => syncPoints' = syncPoints
                /\ \A k \in 1..Len(syncPoints) :
                       ( /\ syncPoints[k].id = id
                         /\ \A j \in 1..Len(syncPoints) :
                                j # k => syncPoints[j].id # id )
                       => /\ syncPoints' = WithoutPosition(syncPoints, k)
                          /\ correctedSubtitles' =
                                 IF Len(syncPoints) = 1 THEN <<>>
                                 ELSE applySyncCorrection(
                                          subtitles,
                                          WithoutPosition(syncPoints, k))
                          /\ subtitles' = subtitles ]_vars

\* Three points were added and the second was removed: the first and the
\* third remain, in that order, and the corrections are theirs.
RemoveByIdWitness ==
    /\ mode = "player"
    /\ nextSyncId = 4
    /\ Len(syncPoints) = 2
    /\ syncPoints[1].id = 1
    /\ syncPoints[2].id = 3
    /\ correctedSubtitles = applySyncCorrection(subtitles, syncPoints)

\* C22: in every state reached by add, remove and clear the corrected
\* entries are empty whenever there is no sync point; clearSyncPoints,
\* from any state, leaves no sync point and no corrected entry and leaves
\* the original entries as they were.
EmptySetHasNoCorrections ==
    /\ []((mode = "player" /\ Len(syncPoints) = 0)
              => correctedSubtitles = <<>>)
    /\ [][ clearSyncPoints =>
               /\ syncPoints' = <<>>
               /\ correctedSubtitles' = <<>>
               /\ subtitles' = subtitles ]_vars

\* Two points were added and the set is empty again, with no corrected
\* entry left.
EmptySetWitness ==
    /\ mode = "player"
    /\ nextSyncId = 3
    /\ syncPoints = <<>>
    /\ correctedSubtitles = <<>>
    /\ subtitles # <<>>

\* C25: in every state reached by add, remove and clear no two sync points
\* have the same subtitleTime (adding a point for a subtitle that already
\* has one gives no second point of that time), so the slope denominator
\* of the correction is never zero.
NoSharedReferenceTime ==
    mode = "player" => DistinctReferences(syncPoints)

(***************************************************************************)
(* Further properties of applySyncCorrection (SpecCorrection)              *)
(***************************************************************************)
\* C23: applySyncCorrection changes times only: the result has as many
\* entries as the input, each with the id and the text lines of the input
\* entry at its position, and the input entries and the stored sync point
\* list (its points and their order) are after the call what they were
\* before it.
CorrectionChangesTimesOnly ==
    /\ [](Returned
              => /\ Len(correctedSubtitles) = Len(subtitles)
                 /\ \A i \in 1..Len(subtitles) :
                        /\ correctedSubtitles[i].id = subtitles[i].id
                        /\ correctedSubtitles[i].text = subtitles[i].text
                        /\ DOMAIN correctedSubtitles[i] = DOMAIN subtitles[i])
    /\ [][ ApplyStep => /\ subtitles' = subtitles
                        /\ syncPoints' = syncPoints ]_vars

\* applySyncCorrection returned for two sync points stored in descending
\* subtitleTime order: the stored list is still in that order and an entry
\* has new times.
CorrectionChangesTimesWitness ==
    /\ Returned
    /\ Len(syncPoints) = 2
    /\ syncPoints[1].subtitleTime > syncPoints[2].subtitleTime
    /\ Len(correctedSubtitles) = Len(subtitles)
    /\ \E i \in 1..Len(subtitles) :
           /\ correctedSubtitles[i].startTime # subtitles[i].startTime
           /\ correctedSubtitles[i].text = subtitles[i].text

\* C26: with two or more sync points of pairwise distinct subtitleTime,
\* every corrected start and end time is a non-negative whole number of
\* milliseconds whose timestamp parseTimestamp accepts, so parseSRT
\* accepts formatSRT of the corrected entries.
CorrectedTimestampsValid ==
    (Returned /\ Len(syncPoints) >= 2 /\ DistinctReferences(syncPoints))
        => /\ \A i \in 1..Len(correctedSubtitles) :
                  /\ parseTimestamp(correctedSubtitles[i].startTime).ok
                  /\ parseTimestamp(correctedSubtitles[i].endTime).ok
           /\ \A i \in 1..Len(subtitles) :
                  \A t \in {parseTimestamp(subtitles[i].startTime).ms,
                             parseTimestamp(subtitles[i].endTime).ms} :
                      /\ MathRound(InterpolatedValue(t)).k = "fin"
                      /\ MathRound(InterpolatedValue(t)).num >= 0
           /\ parseSRT(formatSRT(correctedSubtitles)).ok

\* C26 where no corrected time falls below zero (not a claim of the
\* specification: the part of C26 that holds).
CorrectedTimestampsValidAboveZero ==
    ( /\ Returned /\ Len(syncPoints) >= 2 /\ DistinctReferences(syncPoints)
      /\ \A i \in 1..Len(subtitles) :
             \A t \in {parseTimestamp(subtitles[i].startTime).ms,
                        parseTimestamp(subtitles[i].endTime).ms} :
                 MathRound(InterpolatedValue(t)).num >= 0 )
        => /\ \A i \in 1..Len(correctedSubtitles) :
                  /\ parseTimestamp(correctedSubtitles[i].startTime).ok
                  /\ parseTimestamp(correctedSubtitles[i].endTime).ok
           /\ parseSRT(formatSRT(correctedSubtitles)).ok

\* The sync points whose subtitleTime is the time of timestamp t.
PointsAt(t) ==
    {p \in PointSet(syncPoints) : p.subtitleTime = parseTimestamp(t).ms}

DistinctNonNegative ==
    /\ Len(syncPoints) >= 1
    /\ DistinctReferences(syncPoints)
    /\ \A p \in PointSet(syncPoints) : p.audioTime >= 0

\* The corrected timestamp c is the time `ms`.
IsTime(c, ms) == parseTimestamp(c).ok /\ parseTimestamp(c).ms = ms

\* C27: for sync points of pairwise distinct subtitleTime (one, or two or
\* more) and non-negative audioTime, a timestamp equal to a sync point's
\* subtitleTime is corrected to exactly that point's audioTime: the
\* subtitle a sync point was created from starts at the chosen time.
ReferenceMapsToTarget ==
    (Returned /\ DistinctNonNegative)
        => \A i \in 1..Len(subtitles) :
               /\ \A p \in PointsAt(subtitles[i].startTime) :
                      IsTime(correctedSubtitles[i].startTime, p.audioTime)
               /\ \A p \in PointsAt(subtitles[i].endTime) :
                      IsTime(correctedSubtitles[i].endTime, p.audioTime)

\* C27 as amended: a start timestamp equal to a sync point's subtitleTime
\* is corrected to exactly that point's audioTime; so is an end timestamp
\* when there are two or more points, and with one point the end becomes
\* the larger of that audioTime and the corrected start plus 100 ms.
ReferenceStartMapsToTarget ==
    (Returned /\ DistinctNonNegative)
        => \A i \in 1..Len(subtitles) :
               /\ \A p \in PointsAt(subtitles[i].startTime) :
                      IsTime(correctedSubtitles[i].startTime, p.audioTime)
               /\ \A p \in PointsAt(subtitles[i].endTime) :
                      IF Len(syncPoints) >= 2
                      THEN IsTime(correctedSubtitles[i].endTime, p.audioTime)
                      ELSE IsTime(correctedSubtitles[i].endTime,
                                  Max(p.audioTime,
                                      parseTimestamp(
                                          correctedSubtitles[i].startTime).ms
                                      + 100))

\* Two sync points, the one of the larger subtitleTime (5 s) with
\* audioTime 1.5 s: the entry that starts at 00:00:05,000 starts at
\* 00:00:01,500 after the correction.
ReferenceMapsWitness ==
    /\ Returned
    /\ Len(syncPoints) = 2
    /\ DistinctNonNegative
    /\ \E k \in 1..2 : /\ syncPoints[k].subtitleTime = 5000
                        /\ syncPoints[k].audioTime = 1500
    /\ \A k \in 1..2 : syncPoints[k].subtitleTime <= 5000
    /\ subtitles[2].startTime = Stamp5000
    /\ correctedSubtitles[2].startTime =
           <<"0","0",":","0","0",":","0","1",",","5","0","0">>

\* The audioTime of the sync points grows with their subtitleTime.
IncreasingTargets ==
    \A p, q \in PointSet(syncPoints) :
        p.subtitleTime < q.subtitleTime => p.audioTime < q.audioTime

\* The original times of the entries, each with its corrected timestamp.
TimePairs ==
    { [orig |-> parseTimestamp(subtitles[i].startTime).ms,
       corr |-> correctedSubtitles[i].startTime] : i \in 1..Len(subtitles) }
    \cup
    { [orig |-> parseTimestamp(subtitles[i].endTime).ms,
       corr |-> correctedSubtitles[i].endTime] : i \in 1..Len(subtitles) }

\* The corrected time of t in milliseconds, as Math.round returns it.
CorrectedMs(t) == MathRound(InterpolatedValue(t)).num

\* C28: with two or more sync points of distinct subtitleTime whose
\* audioTime is strictly increasing in ascending subtitleTime order, the
\* correction preserves order: a <= b gives corrected(a) <= corrected(b),
\* so an entry with start <= end keeps corrected start <= corrected end
\* and the entries keep their time order.
CorrectionPreservesOrder ==
    ( /\ Returned
      /\ Len(syncPoints) >= 2
      /\ DistinctReferences(syncPoints)
      /\ IncreasingTargets )
        => /\ \A a, b \in TimePairs :
                  a.orig <= b.orig
                      => /\ CorrectedMs(a.orig) <= CorrectedMs(b.orig)
                         /\ (parseTimestamp(a.corr).ok /\ parseTimestamp(b.corr).ok)
                                => parseTimestamp(a.corr).ms
                                       <= parseTimestamp(b.corr).ms
           /\ \A a \in TimePairs :
                  CorrectedMs(a.orig) >= 0
                      => IsTime(a.corr, CorrectedMs(a.orig))

\* Three sync points with increasing audio times, 0 -> 0, 10 s -> 1.5 s and
\* 20 s -> 11 s: the entry 00:00:05,000 --> 00:00:07,503 lies inside the
\* first segment and keeps its start before its end.
CorrectionPreservesOrderWitness ==
    /\ Returned
    /\ Len(syncPoints) = 3
    /\ DistinctReferences(syncPoints)
    /\ IncreasingTargets
    /\ {p.subtitleTime : p \in PointSet(syncPoints)} = {0, 10000, 20000}
    /\ subtitles[2].startTime = Stamp5000
    /\ parseTimestamp(correctedSubtitles[2].startTime).ok
    /\ parseTimestamp(correctedSubtitles[2].startTime).ms = 750
    /\ parseTimestamp(correctedSubtitles[2].endTime).ms = 1125

\* The sync points in ascending subtitleTime order.
Ascending(points) ==
    LET n == Len(points)
        order == CHOOSE f \in [1..n -> 1..n] :
                     /\ \A x, y \in 1..n : x # y => f[x] # f[y]
                     /\ \A x, y \in 1..n :
                            x < y => points[f[x]].subtitleTime
                                         <= points[f[y]].subtitleTime
    IN  [x \in 1..n |-> points[order[x]]]

\* C29: the result of applySyncCorrection does not depend on the order in
\* which the sync points were added: every ordering of a set of points of
\* pairwise distinct subtitleTime gives the corrected entries of the
\* ascending ordering, so any two orderings give equal entries.
CorrectionIgnoresOrder ==
    (Returned /\ DistinctReferences(syncPoints))
        => correctedSubtitles =
               applySyncCorrection(subtitles, Ascending(syncPoints))

\* applySyncCorrection returned for three sync points stored in descending
\* subtitleTime order.
CorrectionIgnoresOrderWitness ==
    /\ Returned
    /\ Len(syncPoints) = 3
    /\ syncPoints[1].subtitleTime > syncPoints[2].subtitleTime
    /\ syncPoints[2].subtitleTime > syncPoints[3].subtitleTime
    /\ syncPoints[1].audioTime < syncPoints[3].audioTime
    /\ correctedSubtitles # subtitles

(***************************************************************************)
(* Properties of the player when the subtitles prop changes (SpecReload)   *)
(***************************************************************************)
\* C24: in every reachable state of the player with a sync point, the
\* corrected entries held are the correction of the current original
\* entries by the current sync points, also after another subtitle list
\* was passed to the player while sync points exist.
CorrectedLiveDerived ==
    (mode = "player" /\ Len(syncPoints) > 0)
        => /\ Len(correctedSubtitles) = Len(subtitles)
           /\ \A i \in 1..Len(subtitles) :
                  correctedSubtitles[i] =
                      applySyncCorrection(subtitles, syncPoints)[i]

(***************************************************************************)
(* Properties of the translation service (SpecTranslation)                 *)
(***************************************************************************)
\* The safety half of C30: at most maxRetries calls of the API for one
\* batch, the parsed translations of the call that succeeds are what the
\* batch yields, the batch itself is what it yields when the last attempt
\* fails, and a finished run has one output line per input line.
TranslateBatchBounded ==
    /\ [](calls <= settings.maxRetries)
    /\ [][(trPc = "call" /\ attempt' = attempt)
            => translations' = translations \o
                   parseTranslationResponse(response', Len(batch)).lines]_vars
    /\ [][(trPc = "call" /\ attempt' # attempt /\ trPc' = "for")
            => (attempt' = settings.maxRetries
                /\ translations' = translations \o batch)]_vars
    /\ [][(trPc = "call" /\ attempt' # attempt /\ trPc' # "for")
            => (attempt' < settings.maxRetries /\ UNCHANGED translations)]_vars
    /\ [](trPc = "done" => Len(translations) = Len(trLines))

\* C30: translateBatch calls the translation API at most maxRetries times
\* for one batch, returns the parsed translations of the first call that
\* succeeds and the original batch when all maxRetries attempts fail, so
\* that translateSubtitles always completes with one output line per input
\* line.
TranslateSubtitlesCompletes ==
    /\ TranslateBatchBounded
    /\ <>(trPc = "done" /\ Len(translations) = Len(trLines))

\* With a batch size of at least one every run of translateSubtitles
\* completes, whatever the API answers.
TranslateCompletesWithPositiveBatch ==
    (settings.batchSize >= 1)
        => <>(trPc = "done" /\ Len(translations) = Len(trLines))

\* A batch fell back to its own text after the last failed attempt.
TranslateFallbackReached ==
    /\ trPc = "done"
    /\ settings.maxRetries = MaxRetriesSetting
    /\ attempt = settings.maxRetries
    /\ translations = trLines
    /\ Len(trLines) = MaxLines

====
